---- MODULE Spec2Model ----
(***************************************************************************)
(* A model of the SerumMarket class: one instance, the asynchronous calls  *)
(* made on it, and the static market lookup.  A call is a record holding   *)
(* the operation, its position (pc), its locals and its promise (res).     *)
(* One action is one run-to-completion step of the JavaScript event loop:  *)
(* the synchronous start of a call up to its first await, or the settling  *)
(* of an awaited SDK / RPC promise together with the continuation of the   *)
(* call that awaits it.                                                    *)
(*                                                                         *)
(* JavaScript numbers are represented as integer multiples of 1/2, so that *)
(* halving a difference of book prices is exact.                           *)
(***************************************************************************)
EXTENDS Integers, Sequences, FiniteSets, TLC

VARIABLES this, calls

vars == <<this, calls>>

\* Number of callers.  Each has at most one call in flight; a completed call
\* stays visible until its caller makes the next one.
MaxCalls == 2

Slots == 1..MaxCalls

\* The queries and the static lookup write no field of the instance and share
\* no state with one another, so one caller issues them one at a time, while
\* every caller may (re-)initialise the instance at any moment: initMarket is
\* the only operation that writes the instance after construction.
Ops(c) ==
    IF c = 1
    THEN {"initMarket", "getBidAskSpread", "getPrice", "getOrderbook",
          "createPlaceOrderTx", "findByAssets", "getMarketByAssetKeys"}
    ELSE {"initMarket"}

(***************************************************************************)
(* JavaScript values                                                       *)
(***************************************************************************)
Undefined == [t |-> "undefined"]
Null == [t |-> "null"]
NaN == [t |-> "nan"]
\* the number n, n an integer
Num(n) == [t |-> "num", v |-> 2 * n]
\* the number h/2
Halves(h) == [t |-> "num", v |-> h]

Truthy(x) == x.t \notin {"undefined", "null", "nan"} /\ ~(x.t = "num" /\ x.v = 0)

Err(name, message) == [t |-> "error", name |-> name, message |-> message]

\* what reading a property of undefined or null throws
TypeError == Err("TypeError", "Cannot read property of undefined")

\* failures of the transport or of the SDK
NetError == Err("Error", "failed to get info about account")
DecodeError == Err("RangeError", "Invalid buffer length")
ReadErrors == {NetError, DecodeError}

(***************************************************************************)
(* Promises                                                                *)
(***************************************************************************)
Pending == [state |-> "pending"]
Resolved(v) == [state |-> "resolved", val |-> v]
Rejected(e) == [state |-> "rejected", err |-> e]

Idle == [op |-> "idle", pc |-> "idle", res |-> Pending]

\* a caller may start op when its previous call, if any, has settled
Free(c, op) == calls[c].pc \in {"idle", "done"} /\ op \in Ops(c)

\* what a statement sequence ends in: a value or an exception
Return(v) == [ok |-> TRUE, val |-> v]
Throw(e) == [ok |-> FALSE, err |-> e]

\* the promise of an async function whose body ended in completion k
Settle(k) == IF k.ok THEN Resolved(k.val) ELSE Rejected(k.err)

(***************************************************************************)
(* The instance                                                            *)
(***************************************************************************)
Connections == {[t |-> "Connection", endpoint |-> "devnet", commitment |-> "recent"]}
MarketAddresses == {"mktA", "mktB"}
DexProgramKeys == {"dexV3"}

PublicKey(b58) == [t |-> "PublicKey", b58 |-> b58]
toBase58(key) == key.b58

constructor(connection, marketAddress, dexProgramKey) ==
    [connection |-> connection,
     marketAddress |-> marketAddress,
     dexProgramKey |-> dexProgramKey,
     market |-> Undefined]

\* the arguments getMarket hands to Market.load
getMarket(self) ==
    [connection |-> self.connection,
     address |-> self.marketAddress,
     programId |-> self.dexProgramKey]

\* The object Market.load resolves to.  Every load makes a new object: its
\* identity differs from that of the handle the instance holds.
Market_load(req, held) ==
    [t |-> "Market",
     address |-> req.address,
     programId |-> req.programId,
     obj |-> IF held.t = "Market" THEN 1 - held.obj ELSE 0]

\* this.market = <the loaded handle>
SetMarket(self, handle) == [self EXCEPT !.market = handle]

Init ==
    /\ \E conn \in Connections, addr \in MarketAddresses, dex \in DexProgramKeys :
          this = constructor(conn, PublicKey(addr), PublicKey(dex))
    /\ calls = [c \in Slots |-> Idle]

(***************************************************************************)
(* initMarket                                                              *)
(***************************************************************************)
initMarket_call(c) ==
    /\ Free(c, "initMarket")
    /\ calls' = [calls EXCEPT ![c] =
          [op |-> "initMarket", pc |-> "load", load |-> getMarket(this), res |-> Pending]]
    /\ UNCHANGED this

\* Market.load resolves: the assignment of line 25 runs
initMarket_loaded(c) ==
    /\ calls[c].op = "initMarket" /\ calls[c].pc = "load"
    /\ this' = SetMarket(this, Market_load(calls[c].load, this.market))
    /\ calls' = [calls EXCEPT ![c].pc = "done", ![c].res = Resolved(Undefined)]

\* initMarket_failed with the handle cleared on failure
initMarket_failed_Clears(c) ==
    /\ calls[c].op = "initMarket" /\ calls[c].pc = "load"
    /\ \E e \in ReadErrors :
          calls' = [calls EXCEPT ![c].pc = "done", ![c].res = Rejected(e)]
    /\ this' = SetMarket(this, Undefined)

\* Market.load rejects: the rejection is the call's
initMarket_failed(c) ==
    /\ calls[c].op = "initMarket" /\ calls[c].pc = "load"
    /\ \E e \in ReadErrors :
          calls' = [calls EXCEPT ![c].pc = "done", ![c].res = Rejected(e)]
    /\ UNCHANGED this

(***************************************************************************)
(* The order book as the SDK returns it                                    *)
(***************************************************************************)
\* An Orderbook object: its aggregated levels <<price, size>>, best first.
\* An orderbook whose account data does not decode makes getL2 throw.
Orderbook(levels) == [t |-> "Orderbook", levels |-> levels, bad |-> FALSE]
BadOrderbook == [t |-> "Orderbook", levels |-> <<>>, bad |-> TRUE]

BidSides ==
    {Orderbook(<<>>),
     Orderbook(<< <<Num(10), Num(5)>> >>),
     Orderbook(<< <<Num(10), Num(5)>>, <<Num(9), Num(3)>> >>)}

AskSides ==
    {Orderbook(<<>>),
     Orderbook(<< <<Num(12), Num(4)>> >>),
     Orderbook(<< <<Num(13), Num(2)>>, <<Num(14), Num(1)>> >>)}

\* what loadBids / loadAsks may resolve to
BidLoads == BidSides \cup {BadOrderbook, Undefined}
AskLoads == AskSides \cup {BadOrderbook, Undefined}

Min(a, b) == IF a <= b THEN a ELSE b

\* orderbook.getL2(depth), depth a number: the first depth levels.
\* Calling it on undefined throws a TypeError.
getL2(orderbook, depth) ==
    IF orderbook.t # "Orderbook" THEN Throw(TypeError)
    ELSE IF orderbook.bad THEN Throw(DecodeError)
    ELSE Return(SubSeq(orderbook.levels, 1, Min(depth.v \div 2, Len(orderbook.levels))))

(***************************************************************************)
(* getBidAskSpread and getPrice                                            *)
(***************************************************************************)
\* lines 134-136: getL2(1)[0] is undefined on an empty side, and reading
\* [0] of undefined throws
SpreadOf(bidOrderbook, askOrderbook) ==
    LET bidL2 == getL2(bidOrderbook, Num(1))
        askL2 == getL2(askOrderbook, Num(1))
    IN  IF ~bidL2.ok THEN bidL2
        ELSE IF ~askL2.ok THEN askL2
        ELSE IF Len(bidL2.val) = 0 \/ Len(askL2.val) = 0 THEN Throw(TypeError)
        ELSE Return([bid |-> bidL2.val[1][1], ask |-> askL2.val[1][1]])

NotInitialized == [bid |-> Null, ask |-> Null]

\* ToNumber, for the values a quote can hold
ToNumber(x) ==
    CASE x.t = "null" -> Halves(0)
      [] x.t = "num" -> x
      [] OTHER -> NaN

Sub(a, b) ==
    LET x == ToNumber(a)
        y == ToNumber(b)
    IN  IF x.t = "nan" \/ y.t = "nan" THEN NaN ELSE Halves(x.v - y.v)

Add(a, b) ==
    LET x == ToNumber(a)
        y == ToNumber(b)
    IN  IF x.t = "nan" \/ y.t = "nan" THEN NaN ELSE Halves(x.v + y.v)

\* a / 2
Div2(a) ==
    LET x == ToNumber(a)
    IN  IF x.t = "nan" THEN NaN ELSE Halves(x.v \div 2)

\* MidPrice without the final + bid
MidPrice_HalfSpread(bid, ask) == Div2(Sub(ask, bid))

\* line 171
MidPrice(bid, ask) == Add(Div2(Sub(ask, bid)), bid)

\* lines 170-171: the body of getPrice once getBidAskSpread has settled
getPrice(spread) ==
    IF spread.ok THEN Return(MidPrice(spread.val.bid, spread.val.ask)) ELSE spread

\* The call op once its getBidAskSpread ended in completion k: spread is the
\* promise of getBidAskSpread, res the promise of the call.
Quoted(call, k) ==
    [call EXCEPT !.pc = "done",
                 !.spread = Settle(k),
                 !.res = IF call.op = "getPrice" THEN Settle(getPrice(k)) ELSE Settle(k)]

\* lines 127-131, for getBidAskSpread itself and for the one getPrice awaits
SpreadCall(c, op) ==
    /\ Free(c, op)
    /\ calls' = [calls EXCEPT ![c] =
          LET call == [op |-> op, pc |-> "loadBids", init |-> Truthy(this.market),
                       bidOrderbook |-> Undefined, askOrderbook |-> Undefined,
                       spread |-> Pending, res |-> Pending]
          IN  IF ~Truthy(this.market) THEN Quoted(call, Return(NotInitialized)) ELSE call]
    /\ UNCHANGED this

getBidAskSpread_call(c) == SpreadCall(c, "getBidAskSpread")

getPrice_call(c) == SpreadCall(c, "getPrice")

\* loadBids resolves: line 132 starts loadAsks
spread_bidsLoaded(c) ==
    /\ calls[c].op \in {"getBidAskSpread", "getPrice"} /\ calls[c].pc = "loadBids"
    /\ \E ob \in BidLoads :
          calls' = [calls EXCEPT ![c].pc = "loadAsks", ![c].bidOrderbook = ob]
    /\ UNCHANGED this

\* loadAsks resolves: lines 134-136 run
spread_asksLoaded(c) ==
    /\ calls[c].op \in {"getBidAskSpread", "getPrice"} /\ calls[c].pc = "loadAsks"
    /\ \E ob \in AskLoads :
          calls' = [calls EXCEPT ![c] =
             Quoted([calls[c] EXCEPT !.askOrderbook = ob],
                    SpreadOf(calls[c].bidOrderbook, ob))]
    /\ UNCHANGED this

\* loadBids or loadAsks rejects
spread_loadFailed(c) ==
    /\ calls[c].op \in {"getBidAskSpread", "getPrice"}
    /\ calls[c].pc \in {"loadBids", "loadAsks"}
    /\ \E e \in ReadErrors :
          calls' = [calls EXCEPT ![c] = Quoted(calls[c], Throw(e))]
    /\ UNCHANGED this

(***************************************************************************)
(* getOrderbook                                                            *)
(***************************************************************************)
\* line 145: the default of the depth parameter
DefaultDepth == 20

DepthArgs == {Undefined, Num(1), Num(2)}

EmptyBook == [bids |-> <<>>, asks |-> <<>>]

\* ([price, size]) => ({ price, size })
Row(level) == [price |-> level[1], size |-> level[2]]

\* lines 153-155 (and 156-158): one side of the result
SideRows(orderbook, depth) ==
    IF ~Truthy(orderbook) THEN Return(<<>>)
    ELSE LET l2 == getL2(orderbook, depth)
         IN  IF l2.ok THEN Return([i \in 1..Len(l2.val) |-> Row(l2.val[i])]) ELSE l2

\* BookOf with a failing extraction masked side by side
BookOf_PerSide(bidOrderbook, askOrderbook, depth) ==
    LET bids == SideRows(bidOrderbook, depth)
        asks == SideRows(askOrderbook, depth)
    IN  Return([bids |-> IF bids.ok THEN bids.val ELSE <<>>,
                asks |-> IF asks.ok THEN asks.val ELSE <<>>])

\* lines 152-159: the object literal, bids first
BookOf(bidOrderbook, askOrderbook, depth) ==
    LET bids == SideRows(bidOrderbook, depth)
        asks == SideRows(askOrderbook, depth)
    IN  IF ~bids.ok THEN bids
        ELSE IF ~asks.ok THEN asks
        ELSE Return([bids |-> bids.val, asks |-> asks.val])

\* TryCatch without the catch block: the exception leaves getOrderbook
TryCatch_Rethrow(body) == body

\* lines 146, 160-166: try { body } catch (err) { log; return the empty book }
TryCatch(body) == IF body.ok THEN body ELSE Return(EmptyBook)

\* PromiseAll settling with the first read that settles
PromiseAll_Any(reads) ==
    IF reads.bids = "rejected" \/ reads.asks = "rejected" THEN "rejected"
    ELSE IF reads.bids = "fulfilled" \/ reads.asks = "fulfilled" THEN "fulfilled"
    ELSE "pending"

\* Promise.all over the two reads: rejected as soon as one is rejected,
\* fulfilled when both are fulfilled
PromiseAll(reads) ==
    IF reads.bids = "rejected" \/ reads.asks = "rejected" THEN "rejected"
    ELSE IF reads.bids = "fulfilled" /\ reads.asks = "fulfilled" THEN "fulfilled"
    ELSE "pending"

\* lines 145-150.  With no market handle, this.market.loadBids throws inside
\* the try block before any read is started.
getOrderbook_call(c) ==
    /\ Free(c, "getOrderbook")
    /\ \E depth \in DepthArgs :
          LET d == IF depth = Undefined THEN Num(DefaultDepth) ELSE depth
              started == this.market.t = "Market"
          IN  calls' = [calls EXCEPT ![c] =
                 [op |-> "getOrderbook", arg |-> depth, depth |-> d, init |-> started,
                  pc |-> IF started THEN "all" ELSE "done",
                  reads |-> IF started
                            THEN [bids |-> "pending", asks |-> "pending"]
                            ELSE [bids |-> "unstarted", asks |-> "unstarted"],
                  bidOrderbook |-> Undefined, askOrderbook |-> Undefined,
                  failure |-> Undefined,
                  res |-> IF started THEN Pending
                          ELSE Settle(TryCatch(Throw(TypeError)))]]
    /\ UNCHANGED this

\* The continuation of the await of line 147 once Promise.all has settled.
\* A read that settles after the call has returned changes nothing but the
\* read itself.
AfterAll(call) ==
    IF call.pc # "all" \/ PromiseAll(call.reads) = "pending" THEN call
    ELSE [call EXCEPT
            !.pc = "done",
            !.res = IF PromiseAll(call.reads) = "rejected"
                    THEN Settle(TryCatch(Throw(call.failure)))
                    ELSE Settle(TryCatch(BookOf(call.bidOrderbook, call.askOrderbook,
                                                call.depth)))]

\* loadBids resolves
getOrderbook_bidsLoaded(c) ==
    /\ calls[c].op = "getOrderbook" /\ calls[c].reads.bids = "pending"
    /\ \E ob \in BidLoads :
          calls' = [calls EXCEPT ![c] =
             AfterAll([calls[c] EXCEPT !.reads.bids = "fulfilled",
                          !.bidOrderbook = IF calls[c].pc = "all" THEN ob ELSE @])]
    /\ UNCHANGED this

\* loadAsks resolves
getOrderbook_asksLoaded(c) ==
    /\ calls[c].op = "getOrderbook" /\ calls[c].reads.asks = "pending"
    /\ \E ob \in AskLoads :
          calls' = [calls EXCEPT ![c] =
             AfterAll([calls[c] EXCEPT !.reads.asks = "fulfilled",
                          !.askOrderbook = IF calls[c].pc = "all" THEN ob ELSE @])]
    /\ UNCHANGED this

\* loadBids or loadAsks rejects
getOrderbook_loadFailed(c) ==
    /\ calls[c].op = "getOrderbook"
    /\ \E side \in {"bids", "asks"}, e \in ReadErrors :
          /\ calls[c].reads[side] = "pending"
          /\ calls' = [calls EXCEPT ![c] =
                AfterAll([calls[c] EXCEPT !.reads[side] = "rejected",
                             !.failure = IF calls[c].pc = "all" THEN e ELSE @])]
    /\ UNCHANGED this

(***************************************************************************)
(* createPlaceOrderTx                                                      *)
(***************************************************************************)
Str(s) == [t |-> "str", v |-> s]

\* a plain object: its own properties
Obj(props) == [t |-> "object", props |-> props]

\* o.k, undefined when o has no property k
Get(o, k) == IF k \in DOMAIN o.props THEN o.props[k] ELSE Undefined

OptKeys == {"clientId", "openOrdersAddressKey", "openOrdersAccount", "feeDiscountPubkey"}

OptValue ==
    [clientId |-> Num(7),
     openOrdersAddressKey |-> PublicKey("openOrdersKey"),
     openOrdersAccount |-> [t |-> "Account", publicKey |-> PublicKey("openOrdersAcct")],
     feeDiscountPubkey |-> PublicKey("msrmWallet")]

\* the opts a caller may pass: no option, one option or all of them, or null
OptsArgs ==
    {Obj([k \in keys |-> OptValue[k]]) :
        keys \in {{}} \cup {{k} : k \in OptKeys} \cup {OptKeys}} \cup {Null}

\* the argument objects a caller may pass: orderType and opts may be absent
OrderArgs ==
    LET core(side) ==
           [connection |-> CHOOSE conn \in Connections : TRUE,
            owner |-> PublicKey("wallet"),
            payer |-> PublicKey("tokenAccount"),
            side |-> Str(side),
            price |-> Num(11),
            size |-> Num(3)]
    IN  {Obj(core(side) @@ orderType @@ opts) :
            side \in {"buy", "sell"},
            orderType \in {<<>>, [orderType |-> Str("postOnly")]},
            opts \in {<<>>} \cup {[opts |-> o] : o \in OptsArgs}}

ParamKeys ==
    {"owner", "payer", "side", "price", "size", "orderType"} \cup OptKeys

\* Params with the options read from the arguments instead of opts
Params_FromArgs(args, opts) ==
    Obj([k \in ParamKeys |-> Get(args, k)])

\* lines 214-225: the object literal handed to makePlaceOrderTransaction
Params(args, opts) ==
    Obj([k \in ParamKeys |-> IF k \in OptKeys THEN Get(opts, k) ELSE Get(args, k)])

\* what the SDK's transaction builder may resolve to
BuilderResults ==
    {[transaction |-> "placeOrderTx", signers |-> <<>>],
     [transaction |-> "createOpenOrdersAndPlaceOrderTx", signers |-> <<"newOpenOrders">>]}

\* lines 202-214.  opts defaults to {} when undefined; destructuring null and
\* calling a method of an unset market handle throw a TypeError.
createPlaceOrderTx_call(c) ==
    /\ Free(c, "createPlaceOrderTx")
    /\ \E args \in OrderArgs :
          LET opts == IF Get(args, "opts") = Undefined THEN Obj(<<>>) ELSE Get(args, "opts")
              thrown == opts = Null \/ this.market.t # "Market"
          IN  calls' = [calls EXCEPT ![c] =
                 [op |-> "createPlaceOrderTx", args |-> args,
                  init |-> this.market.t = "Market",
                  pc |-> IF thrown THEN "done" ELSE "build",
                  built |-> IF thrown THEN <<>>
                            ELSE << [connection |-> Get(args, "connection"),
                                     params |-> Params(args, opts)] >>,
                  build |-> Pending,
                  res |-> IF thrown THEN Rejected(TypeError) ELSE Pending]]
    /\ UNCHANGED this

\* the builder's promise resolves: the call's promise takes its value
createPlaceOrderTx_built(c) ==
    /\ calls[c].op = "createPlaceOrderTx" /\ calls[c].pc = "build"
    /\ \E tx \in BuilderResults :
          calls' = [calls EXCEPT ![c].pc = "done", ![c].build = Resolved(tx),
                       ![c].res = Resolved(tx)]
    /\ UNCHANGED this

\* the builder's promise rejects: so does the call's
createPlaceOrderTx_buildFailed(c) ==
    /\ calls[c].op = "createPlaceOrderTx" /\ calls[c].pc = "build"
    /\ \E e \in ReadErrors :
          calls' = [calls EXCEPT ![c].pc = "done", ![c].build = Rejected(e),
                       ![c].res = Rejected(e)]
    /\ UNCHANGED this

(***************************************************************************)
(* getMarketByAssetKeys and findByAssets                                   *)
(***************************************************************************)
BaseMints == {"SOL", "ETH"}
QuoteMints == {"USDC"}

\* Base64 text of account data, and the Buffer decoded from it
Base64(bytes) == [t |-> "base64", of |-> bytes]
Buffer_from(text, encoding) == [t |-> "Buffer", bytes |-> text.of]

\* Market.getLayout(programId).offsetOf(field): where the field lies in the
\* account data
offsetOf(programId, field) == field

\* the accounts the dex program owns on the ledger, as the node reports them
ProgramAccounts ==
    LET acct(pubkey, base, quote, lamports) ==
           [pubkey |-> pubkey,
            account |-> [data |-> << Base64([baseMint |-> base, quoteMint |-> quote]),
                                     "base64" >>,
                         executable |-> FALSE,
                         owner |-> "dexV3",
                         lamports |-> lamports]]
    IN  {acct("mktA", "SOL", "USDC", 100),
         acct("mktB", "SOL", "USDC", 200),
         acct("mktC", "SOL", "USDT", 300)}

\* lines 72-93: the getProgramAccounts request
RpcRequest(connection, baseMintAddress, quoteMintAddress, dexProgramId) ==
    [method |-> "getProgramAccounts",
     programId |-> toBase58(dexProgramId),
     commitment |-> connection.commitment,
     filters |-> << [offset |-> offsetOf(dexProgramId, "baseMint"),
                     bytes |-> toBase58(baseMintAddress)],
                    [offset |-> offsetOf(dexProgramId, "quoteMint"),
                     bytes |-> toBase58(quoteMintAddress)] >>,
     encoding |-> "base64"]

\* the node's scan: the accounts whose data holds the bytes of every filter
Matching(request) ==
    {a \in ProgramAccounts :
        /\ a.account.owner = request.programId
        /\ \A i \in 1..Len(request.filters) :
              a.account.data[1].of[request.filters[i].offset] = request.filters[i].bytes}

\* the orders in which the node may list a set of accounts
Orderings(S) ==
    {seq \in [1..Cardinality(S) -> S] : \A i, j \in 1..Cardinality(S) : seq[i] = seq[j] => i = j}

NodeErrorMessages == {"x", "Node is behind by 153 slots"}

\* the responses a node may give: an error, or the matching accounts
RpcResponses(request) ==
    {[error |-> [t |-> "object", code |-> -32005, message |-> Str(m)], result |-> <<>>] :
        m \in NodeErrorMessages}
    \cup {[error |-> Undefined, result |-> r] : r \in Orderings(Matching(request))}

\* Error with a message of its own
Error_Generic(message) == Err("Error", "getProgramAccounts failed")

\* new Error(message), message a string
Error(message) == Err("Error", message.v)

\* lines 97-107: one element of the returned list
AccountOf(entry) ==
    [publicKey |-> PublicKey(entry.pubkey),
     accountInfo |-> [data |-> Buffer_from(entry.account.data[1], "base64"),
                      executable |-> entry.account.executable,
                      owner |-> PublicKey(entry.account.owner),
                      lamports |-> entry.account.lamports]]

\* lines 94-107: the body of getMarketByAssetKeys once the node has answered
getMarketByAssetKeys(resp) ==
    IF Truthy(resp.error) THEN Throw(Error(resp.error.message))
    ELSE Return([i \in 1..Len(resp.result) |-> AccountOf(resp.result[i])])

\* NewMarket on the last account of the list
NewMarket_Last(args, availableMarkets) ==
    constructor(args.connection, availableMarkets[Len(availableMarkets)].publicKey,
                args.dexProgramKey)

\* lines 49-53
NewMarket(args, availableMarkets) ==
    constructor(args.connection, availableMarkets[1].publicKey, args.dexProgramKey)

\* lines 36-47 and 66-93: both lookups start with the account scan
LookupCall(c, op) ==
    /\ Free(c, op)
    /\ \E conn \in Connections, base \in BaseMints, quote \in QuoteMints,
          dex \in DexProgramKeys :
          calls' = [calls EXCEPT ![c] =
             [op |-> op, pc |-> "rpc",
              args |-> [connection |-> conn, baseMintAddress |-> PublicKey(base),
                        quoteMintAddress |-> PublicKey(quote),
                        dexProgramKey |-> PublicKey(dex)],
              request |-> RpcRequest(conn, PublicKey(base), PublicKey(quote), PublicKey(dex)),
              resp |-> Undefined, market |-> Undefined, res |-> Pending]]
    /\ UNCHANGED this

getMarketByAssetKeys_call(c) == LookupCall(c, "getMarketByAssetKeys")

findByAssets_call(c) == LookupCall(c, "findByAssets")

\* The node answers.  getMarketByAssetKeys settles; findByAssets goes on
\* with lines 48-57: a market built on the first account and its initMarket,
\* or null.
lookup_answered(c) ==
    /\ calls[c].op \in {"getMarketByAssetKeys", "findByAssets"} /\ calls[c].pc = "rpc"
    /\ \E resp \in RpcResponses(calls[c].request) :
          LET availableMarkets == getMarketByAssetKeys(resp)
              found == availableMarkets.ok /\ Len(availableMarkets.val) # 0
          IN  calls' = [calls EXCEPT ![c] =
                 IF calls[c].op = "getMarketByAssetKeys"
                 THEN [@ EXCEPT !.pc = "done", !.resp = resp,
                                !.res = Settle(availableMarkets)]
                 ELSE IF ~availableMarkets.ok
                 THEN [@ EXCEPT !.pc = "done", !.resp = resp,
                                !.res = Settle(availableMarkets)]
                 ELSE IF found
                 THEN [@ EXCEPT !.pc = "init", !.resp = resp,
                                !.market = NewMarket(calls[c].args, availableMarkets.val)]
                 ELSE [@ EXCEPT !.pc = "done", !.resp = resp, !.res = Resolved(Null)]]
    /\ UNCHANGED this

\* the RPC transport fails
lookup_rpcFailed(c) ==
    /\ calls[c].op \in {"getMarketByAssetKeys", "findByAssets"} /\ calls[c].pc = "rpc"
    /\ calls' = [calls EXCEPT ![c].pc = "done", ![c].res = Rejected(NetError)]
    /\ UNCHANGED this

\* line 54-55: initMarket of the new instance completes
findByAssets_loaded(c) ==
    /\ calls[c].op = "findByAssets" /\ calls[c].pc = "init"
    /\ LET market == SetMarket(calls[c].market,
                               Market_load(getMarket(calls[c].market), calls[c].market.market))
       IN  calls' = [calls EXCEPT ![c].pc = "done", ![c].market = market,
                        ![c].res = Resolved(market)]
    /\ UNCHANGED this

\* line 54: initMarket of the new instance rejects
findByAssets_loadFailed(c) ==
    /\ calls[c].op = "findByAssets" /\ calls[c].pc = "init"
    /\ \E e \in ReadErrors :
          calls' = [calls EXCEPT ![c].pc = "done", ![c].res = Rejected(e)]
    /\ UNCHANGED this

Next ==
    \E c \in Slots :
       \/ initMarket_call(c)
       \/ initMarket_loaded(c)
       \/ initMarket_failed(c)
       \/ getBidAskSpread_call(c)
       \/ getPrice_call(c)
       \/ spread_bidsLoaded(c)
       \/ spread_asksLoaded(c)
       \/ spread_loadFailed(c)
       \/ getOrderbook_call(c)
       \/ getOrderbook_bidsLoaded(c)
       \/ getOrderbook_asksLoaded(c)
       \/ getOrderbook_loadFailed(c)
       \/ createPlaceOrderTx_call(c)
       \/ createPlaceOrderTx_built(c)
       \/ createPlaceOrderTx_buildFailed(c)
       \/ getMarketByAssetKeys_call(c)
       \/ findByAssets_call(c)
       \/ lookup_answered(c)
       \/ lookup_rpcFailed(c)
       \/ findByAssets_loaded(c)
       \/ findByAssets_loadFailed(c)

Spec == Init /\ [][Next]_vars

(***************************************************************************)
(* Properties                                                              *)
(***************************************************************************)
Done(c, op) == calls[c].op = op /\ calls[c].pc = "done"

\* an orderbook that decodes
GoodSide(ob) == ob.t = "Orderbook" /\ ~ob.bad

\* the best price of a side that has a level
Top(ob) == ob.levels[1][1]

\* C1: a getBidAskSpread call started while the market handle is unset
\* resolves to {bid: null, ask: null}, and a getOrderbook call started while
\* it is unset resolves to {bids: [], asks: []} at once, whatever the depth;
\* neither rejects.
C1_NotReady ==
    \A c \in Slots :
       /\ calls[c].op = "getBidAskSpread" /\ ~calls[c].init
             => calls[c].pc = "done" /\ calls[c].res = Resolved([bid |-> Null, ask |-> Null])
       /\ calls[c].op = "getOrderbook" /\ ~calls[c].init
             => /\ calls[c].pc = "done"
                /\ calls[c].res = Resolved([bids |-> <<>>, asks |-> <<>>])

C1_Witness ==
    /\ Done(1, "getOrderbook") /\ ~calls[1].init /\ calls[1].arg = Num(2)
    /\ calls[1].res = Resolved([bids |-> <<>>, asks |-> <<>>])
    /\ this.market = Undefined

\* a read of the call was rejected, or a side that was read does not decode
ReadFailed(call) ==
    \/ call.reads.bids = "rejected"
    \/ call.reads.asks = "rejected"
    \/ (call.bidOrderbook.t = "Orderbook" /\ call.bidOrderbook.bad)
    \/ (call.askOrderbook.t = "Orderbook" /\ call.askOrderbook.bad)

\* C2: the promise of getOrderbook is never rejected, and once a read has
\* rejected or getL2 has thrown the call is resolved to exactly
\* {bids: [], asks: []}.
C2_Swallowed ==
    \A c \in Slots :
       calls[c].op = "getOrderbook"
          => /\ calls[c].res.state # "rejected"
             /\ calls[c].pc = "done" /\ ReadFailed(calls[c])
                   => calls[c].res = Resolved([bids |-> <<>>, asks |-> <<>>])
             /\ calls[c].pc = "all" => ~ReadFailed(calls[c]) \/ calls[c].res = Pending

C2_Witness ==
    /\ Done(1, "getOrderbook")
    /\ calls[1].reads = [bids |-> "fulfilled", asks |-> "fulfilled"]
    /\ calls[1].bidOrderbook = Orderbook(<< <<Num(10), Num(5)>> >>)
    /\ calls[1].askOrderbook = BadOrderbook
    /\ calls[1].res = Resolved([bids |-> <<>>, asks |-> <<>>])

\* both sides were read, decode and have a level
BothSidesQuoted(call) ==
    /\ GoodSide(call.bidOrderbook) /\ Len(call.bidOrderbook.levels) >= 1
    /\ GoodSide(call.askOrderbook) /\ Len(call.askOrderbook.levels) >= 1

\* C3: when both sides have a level, getBidAskSpread resolves to the two top
\* prices and getPrice to bid + (ask - bid)/2 of them; for bid 10 and ask 12
\* the price is 11.
C3_MidPrice ==
    \A c \in Slots :
       calls[c].pc = "done" /\ calls[c].op \in {"getBidAskSpread", "getPrice"}
       /\ BothSidesQuoted(calls[c])
          => LET bid == Top(calls[c].bidOrderbook)
                 ask == Top(calls[c].askOrderbook)
             IN  /\ calls[c].spread = Resolved([bid |-> bid, ask |-> ask])
                 /\ calls[c].op = "getBidAskSpread" => calls[c].res = calls[c].spread
                 /\ calls[c].op = "getPrice"
                       => /\ calls[c].res.state = "resolved"
                          /\ calls[c].res.val.t = "num"
                          /\ 2 * calls[c].res.val.v = 2 * bid.v + (ask.v - bid.v)
                          /\ bid = Num(10) /\ ask = Num(12) => calls[c].res.val = Num(11)

C3_Witness ==
    /\ Done(1, "getPrice")
    /\ BothSidesQuoted(calls[1])
    /\ Top(calls[1].bidOrderbook) = Num(10)
    /\ Top(calls[1].askOrderbook) = Num(12)
    /\ calls[1].res = Resolved(Num(11))

\* C4: getPrice resolves to NaN whenever the quote it awaited has null for
\* the bid or for the ask.
C4_NaNOnNull ==
    \A c \in Slots :
       Done(c, "getPrice") /\ calls[c].spread.state = "resolved"
       /\ (calls[c].spread.val.bid = Null \/ calls[c].spread.val.ask = Null)
          => calls[c].res = Resolved(NaN)

\* C5: on an initialized market, when a side that was read has no level,
\* getBidAskSpread resolves to null for that side and to the best price of
\* the other side, if it has one.
C5_EmptySideNull ==
    \A c \in Slots :
       Done(c, "getBidAskSpread") /\ calls[c].init
       /\ GoodSide(calls[c].bidOrderbook) /\ GoodSide(calls[c].askOrderbook)
          => calls[c].res =
                Resolved([bid |-> IF Len(calls[c].bidOrderbook.levels) = 0 THEN Null
                                  ELSE Top(calls[c].bidOrderbook),
                          ask |-> IF Len(calls[c].askOrderbook.levels) = 0 THEN Null
                                  ELSE Top(calls[c].askOrderbook)])

\* the node answered the call's scan without an error
Scanned(call) == call.resp # Undefined /\ call.resp.error = Undefined

\* C6: findByAssets resolves to null, having built nothing, when the scan
\* lists no account; when it lists some, findByAssets resolves only to an
\* instance built on the first listed address, with the caller's connection
\* and program key, whose market handle has been loaded.
C6_FirstMatch ==
    \A c \in Slots :
       calls[c].op = "findByAssets" /\ Scanned(calls[c])
          => /\ Len(calls[c].resp.result) = 0
                   => /\ calls[c].pc = "done"
                      /\ calls[c].res = Resolved(Null)
                      /\ calls[c].market = Undefined
             /\ Len(calls[c].resp.result) > 0
                   => /\ calls[c].market # Undefined
                      /\ calls[c].market.marketAddress.b58 = calls[c].resp.result[1].pubkey
                      /\ calls[c].market.connection = calls[c].args.connection
                      /\ calls[c].market.dexProgramKey = calls[c].args.dexProgramKey
                      /\ calls[c].res.state = "resolved"
                            => /\ calls[c].res.val = calls[c].market
                               /\ calls[c].market.market.t = "Market"
                               /\ calls[c].market.market.address.b58
                                     = calls[c].resp.result[1].pubkey
                      /\ calls[c].market.market = Undefined => calls[c].res.state # "resolved"

C6_Witness ==
    /\ Done(1, "findByAssets") /\ Scanned(calls[1])
    /\ Len(calls[1].resp.result) = 2
    /\ calls[1].resp.result[1].pubkey = "mktB"
    /\ calls[1].res.state = "resolved"
    /\ calls[1].res.val.marketAddress = PublicKey("mktB")

\* C7: when the node's response carries an error, getMarketByAssetKeys
\* rejects with an Error whose message is the node's message and returns no
\* list; findByAssets rejects with the same error and builds no instance.
C7_RemoteError ==
    \A c \in Slots :
       calls[c].op \in {"getMarketByAssetKeys", "findByAssets"}
       /\ calls[c].resp # Undefined /\ calls[c].resp.error # Undefined
          => /\ calls[c].pc = "done"
             /\ calls[c].res.state = "rejected"
             /\ calls[c].res.err.name = "Error"
             /\ calls[c].res.err.message = calls[c].resp.error.message.v
             /\ calls[c].market = Undefined

C7_Witness ==
    /\ Done(1, "findByAssets")
    /\ calls[1].resp # Undefined /\ calls[1].resp.error # Undefined
    /\ calls[1].resp.error.message = Str("x")
    /\ calls[1].res = Rejected([t |-> "error", name |-> "Error", message |-> "x"])
\* what the caller supplied for key k of the builder's parameters
Supplied(args, k) ==
    IF k \in OptKeys
    THEN IF "opts" \in DOMAIN args.props /\ args.props.opts.t = "object"
            /\ k \in DOMAIN args.props.opts.props
         THEN args.props.opts.props[k]
         ELSE Undefined
    ELSE IF k \in DOMAIN args.props THEN args.props[k] ELSE Undefined

\* the state part of C8
C8_PassThrough ==
    \A c \in Slots :
       calls[c].op = "createPlaceOrderTx"
          => /\ Len(calls[c].built) <= 1
             /\ Len(calls[c].built) = 1
                   <=> calls[c].init /\ Supplied(calls[c].args, "opts") \in
                          {Undefined} \cup {Obj([k \in keys |-> OptValue[k]]) : keys \in SUBSET OptKeys}
             /\ Len(calls[c].built) = 1
                   => /\ DOMAIN calls[c].built[1].params.props =
                            {"owner", "payer", "side", "price", "size", "orderType",
                             "clientId", "openOrdersAddressKey", "openOrdersAccount",
                             "feeDiscountPubkey"}
                      /\ \A k \in DOMAIN calls[c].built[1].params.props :
                            calls[c].built[1].params.props[k] = Supplied(calls[c].args, k)
                      /\ calls[c].res = calls[c].build
                      /\ calls[c].pc = "done" <=> calls[c].build.state # "pending"

\* the action part of C8: a step of a createPlaceOrderTx call leaves every
\* field of the instance as it was
C8_Frame ==
    \A c \in Slots :
       calls'[c] # calls[c] /\ calls'[c].op = "createPlaceOrderTx" => this' = this

\* C8: a createPlaceOrderTx call on an instance whose market handle is set
\* makes exactly one builder call (none otherwise, and none when opts is
\* null), whose parameters are the ten listed keys, each with the value the
\* caller supplied and undefined where the caller supplied none; the call
\* settles as the builder's promise does, with the same value; and no step
\* of the call changes a field of the instance.
C8_Forwarding == []C8_PassThrough /\ [][C8_Frame]_vars

C8_Witness ==
    /\ Done(1, "createPlaceOrderTx")
    /\ Len(calls[1].built) = 1
    /\ Supplied(calls[1].args, "clientId") = Num(7)
    /\ Supplied(calls[1].args, "feeDiscountPubkey") = Undefined
    /\ Supplied(calls[1].args, "orderType") = Undefined
    /\ calls[1].built[1].params.props.side = Str("sell")
    /\ calls[1].res.state = "resolved"
    /\ calls[1].res.val.signers = <<"newOpenOrders">>

\* a step in which an initMarket call completes with a loaded handle
InitMarketCompletes ==
    \E c \in Slots :
       /\ calls[c].op = "initMarket" /\ calls[c].pc = "load"
       /\ calls'[c].pc = "done" /\ calls'[c].res.state = "resolved"

\* C9 as stated: no field changes once written (every write of the market
\* handle stores a newly loaded object, so a second write is a change), and
\* no step of a query writes a field.
C9_WrittenOnce ==
    [][/\ this'.connection = this.connection
       /\ this'.marketAddress = this.marketAddress
       /\ this'.dexProgramKey = this.dexProgramKey
       /\ this.market # Undefined => this'.market = this.market
       /\ this' # this => InitMarketCompletes]_vars

\* C9 amended: connection, marketAddress and dexProgramKey never change after
\* construction; the market handle changes exactly in the steps in which an
\* initMarket call completes successfully, each of which stores a newly
\* loaded handle for the instance's address and program, replacing the one
\* held; no step of any other operation writes a field.
C9_WrittenByInitOnly ==
    [][/\ this'.connection = this.connection
       /\ this'.marketAddress = this.marketAddress
       /\ this'.dexProgramKey = this.dexProgramKey
       /\ this'.market # this.market <=> InitMarketCompletes
       /\ this'.market # this.market
             => /\ this'.market.t = "Market"
                /\ this'.market.address = this.marketAddress
                /\ this'.market.programId = this.dexProgramKey]_vars

\* the handle has been replaced by a second initMarket while a query ran
C9_Witness ==
    /\ this.market.t = "Market" /\ this.market.obj = 1
    /\ Done(2, "initMarket") /\ calls[2].res.state = "resolved"
    /\ calls[1].op = "getBidAskSpread" /\ calls[1].pc = "loadAsks"

\* C10 as stated: both reads are started before the await, and the call does
\* not resolve while a read is pending.
C10_JoinsBoth ==
    \A c \in Slots :
       calls[c].op = "getOrderbook" /\ calls[c].init
          => /\ calls[c].reads.bids # "unstarted" /\ calls[c].reads.asks # "unstarted"
             /\ calls[c].pc = "done"
                   => calls[c].reads.bids # "pending" /\ calls[c].reads.asks # "pending"

\* C10 amended: getOrderbook on a set market handle starts both reads before
\* awaiting either.  It stays pending while no read has rejected and not both
\* have fulfilled; it resolves when both have fulfilled, or, to the empty
\* book, as soon as one read rejects, and then the other read may still be
\* pending.
C10_JoinOrFirstRejection ==
    \A c \in Slots :
       calls[c].op = "getOrderbook" /\ calls[c].init
          => LET bids == calls[c].reads.bids
                 asks == calls[c].reads.asks
             IN  /\ bids # "unstarted" /\ asks # "unstarted"
                 /\ calls[c].pc = "done"
                       <=> \/ bids = "fulfilled" /\ asks = "fulfilled"
                           \/ bids = "rejected"
                           \/ asks = "rejected"
                 /\ calls[c].pc = "done" /\ "pending" \in {bids, asks}
                       => /\ "rejected" \in {bids, asks}
                          /\ calls[c].res = Resolved([bids |-> <<>>, asks |-> <<>>])

C10_Witness ==
    /\ Done(1, "getOrderbook") /\ calls[1].init
    /\ calls[1].reads = [bids |-> "pending", asks |-> "rejected"]
    /\ calls[1].res = Resolved([bids |-> <<>>, asks |-> <<>>])
====
